---- MODULE Spec2Model ----
(***************************************************************************)
(* Model of clusterloader2/pkg/measurement/common/slos/                    *)
(* api_responsiveness_prometheus.go: the keyed aggregation of Prometheus   *)
(* samples into apiCallMetric records, their validation against the API    *)
(* call latency SLO, the ranked report, and the Gather pass that drives    *)
(* the query executor.                                                     *)
(*                                                                         *)
(* Units.  time.Duration is an integer; the model counts it in             *)
(* microseconds (Second = 10^6) so that 40 s fits TLC's integers.  A       *)
(* latency sample value (float seconds) is a fixed-point number of         *)
(* milliseconds, a count sample value (float) a fixed-point number of      *)
(* tenths, a quantile (float) a number of hundredths.                      *)
(***************************************************************************)
EXTENDS Integers, Sequences, FiniteSets, TLC

VARIABLES
    metrics,          \* apiCallMetrics.metrics: map[string]*apiCallMetric
    lastCall,         \* the most recent call on the aggregator and its arguments
    returned,         \* what the most recent call returned
    updates,          \* label 4-tuples of the updates that reached getAPICall
    ncalls,           \* number of Set* calls made so far
    latencySamples,   \* newFromSamples / gatherAPICalls: latency samples
    countSamples,     \* newFromSamples / gatherAPICalls: count samples
    countSlowSamples, \* newFromSamples / gatherAPICalls: slow-count samples
    given,            \* the three sample lists newFromSamples was handed
    config,           \* config.Params of the pass
    store,            \* what the monitoring backend holds at the evaluation instant
    pc,               \* position of the Gather pass
    now,              \* wall clock, in ticks
    measurementEnd,   \* gatherAPICalls: time.Now() taken when gathering begins
    queries,          \* the queries the executor has received, in order
    result,           \* what Gather returned: summary and error
    ap,               \* Validate: the record under validation
    allowedSlowCalls, \* Validate: the tolerance it is called with
    verdict           \* Validate: what it returned

vars == <<metrics, lastCall, returned, updates, ncalls, latencySamples,
          countSamples, countSlowSamples, given, config, store, pc, now,
          measurementEnd, queries, result, ap, allowedSlowCalls, verdict>>

aggVars == <<metrics, lastCall, returned, updates, ncalls>>
sampleVars == <<latencySamples, countSamples, countSlowSamples, given>>
gatherVars == <<config, store, pc, now, measurementEnd, queries, result>>
validateVars == <<ap, allowedSlowCalls, verdict>>

None == "none"

(***************************************************************************)
(* Bounds of the model.                                                    *)
(***************************************************************************)
MaxCalls == 3      \* Set* calls in one behaviour of Spec
MaxSamples == 2    \* samples in each list handed to newFromSamples

(***************************************************************************)
(* Constants of the program.                                               *)
(***************************************************************************)
Second == 1000000                    \* time.Second, in microseconds
resourceThreshold == 1 * Second
namespaceThreshold == 5 * Second
clusterThreshold == 30 * Second

\* time.Duration(float64(sample.Value) * float64(time.Second)); v in milliseconds
ToDuration(v) == v * (Second \div 1000)

\* float64(d) / 1000000 on nanoseconds, "us -> ms": the duration in milliseconds
ToMillis(d) == d \div (Second \div 1000)

\* faulty variant: int(float64(sample.Value)) without math.Round, truncation
RoundTruncating(v) == IF v >= 0 THEN v \div 10 ELSE -((-v) \div 10)

\* int(math.Round(float64(sample.Value))): half away from zero; v in tenths
Round(v) == IF v >= 0 THEN (v + 5) \div 10 ELSE -((5 - v) \div 10)

(***************************************************************************)
(* Sequence helpers.                                                       *)
(***************************************************************************)
Range(s) == {s[i] : i \in 1..Len(s)}

\* every enumeration of the finite set S, each element once
Orders(S) == {s \in [1..Cardinality(S) -> S] : Range(s) = S}

\* every sequence over S of length at most n
SeqUpTo(S, n) == UNION {[1..k -> S] : k \in 0..n}

(***************************************************************************)
(* measurementutil.LatencyMetric                                           *)
(***************************************************************************)
ZeroLatency == [Perc50 |-> 0, Perc90 |-> 0, Perc99 |-> 0]

\* LatencyMetric.SetQuantile: sets the percentile the quantile names
SetQuantile(latency, quantile, d) ==
    CASE quantile = 50 -> [latency EXCEPT !.Perc50 = d]
      [] quantile = 90 -> [latency EXCEPT !.Perc90 = d]
      [] quantile = 99 -> [latency EXCEPT !.Perc99 = d]
      [] OTHER -> latency

\* LatencyMetric.VerifyThreshold: TRUE when it returns an error
VerifyThreshold(latency, threshold) == latency.Perc99 > threshold

(***************************************************************************)
(* apiCallMetrics                                                          *)
(***************************************************************************)
buildKey(resource, subresource, verb, scope) ==
    resource \o "|" \o subresource \o "|" \o verb \o "|" \o scope

newAPICall(resource, subresource, verb, scope) ==
    [Resource |-> resource, Subresource |-> subresource, Verb |-> verb,
     Scope |-> scope, Latency |-> ZeroLatency, Count |-> 0, SlowCount |-> 0]

\* faulty variant: the lookup is dropped, every reference starts a fresh record
getAPICallAlwaysNew(m, resource, subresource, verb, scope) ==
    LET key == buildKey(resource, subresource, verb, scope)
    IN  [k \in DOMAIN m \cup {key} |->
            IF k = key THEN newAPICall(resource, subresource, verb, scope)
            ELSE m[k]]

\* the map after getAPICall; the record it returns is the one at buildKey(...)
getAPICall(m, resource, subresource, verb, scope) ==
    LET key == buildKey(resource, subresource, verb, scope)
    IN  IF key \in DOMAIN m THEN m
        ELSE [k \in DOMAIN m \cup {key} |->
                IF k = key THEN newAPICall(resource, subresource, verb, scope)
                ELSE m[k]]

SetLatency(m, resource, subresource, verb, scope, quantile, latency) ==
    LET key == buildKey(resource, subresource, verb, scope)
        m1 == getAPICall(m, resource, subresource, verb, scope)
    IN  [m1 EXCEPT ![key].Latency = SetQuantile(@, quantile, latency)]

\* faulty variant: the zero guard is missing
SetCountNoGuard(m, resource, subresource, verb, scope, count) ==
    LET key == buildKey(resource, subresource, verb, scope)
        m1 == getAPICall(m, resource, subresource, verb, scope)
    IN  [m1 EXCEPT ![key].Count = count]

SetCount(m, resource, subresource, verb, scope, count) ==
    IF count = 0 THEN m
    ELSE LET key == buildKey(resource, subresource, verb, scope)
             m1 == getAPICall(m, resource, subresource, verb, scope)
         IN  [m1 EXCEPT ![key].Count = count]

SetSlowCount(m, resource, subresource, verb, scope, count) ==
    IF count = 0 THEN m
    ELSE LET key == buildKey(resource, subresource, verb, scope)
             m1 == getAPICall(m, resource, subresource, verb, scope)
         IN  [m1 EXCEPT ![key].SlowCount = count]

\* faulty variant: ascending comparison
lessAscending(a, b) == a.Latency.Perc99 < b.Latency.Perc99

\* the comparison handed to sort.Slice
less(a, b) == a.Latency.Perc99 > b.Latency.Perc99

\* sort.Slice, as insertion of each element before the first one it is less than
RECURSIVE SortSlice(_)
SortSlice(all) ==
    IF Len(all) <= 1 THEN all
    ELSE LET front == SortSlice(SubSeq(all, 1, Len(all) - 1))
             x == all[Len(all)]
             before == {i \in 1..Len(front) : less(x, front[i])}
             at == IF before = {} THEN Len(front) + 1
                   ELSE CHOOSE i \in before : \A j \in before : i <= j
         IN  SubSeq(front, 1, at - 1) \o <<x>> \o SubSeq(front, at, Len(front))

\* sorted(): the map's values in iteration order `order`, then sort.Slice
sorted(m, order) == SortSlice([i \in 1..Len(order) |-> m[order[i]]])

DataItem(apicall) ==
    [Data |-> [Perc50 |-> ToMillis(apicall.Latency.Perc50),
               Perc90 |-> ToMillis(apicall.Latency.Perc90),
               Perc99 |-> ToMillis(apicall.Latency.Perc99)],
     Unit |-> "ms",
     Labels |-> [Verb |-> apicall.Verb, Resource |-> apicall.Resource,
                 Subresource |-> apicall.Subresource, Scope |-> apicall.Scope,
                 Count |-> apicall.Count, SlowCount |-> apicall.SlowCount]]

ToPerfData(m, order) ==
    LET all == sorted(m, order)
    IN  [Version |-> "v1", DataItems |-> [i \in 1..Len(all) |-> DataItem(all[i])]]

(***************************************************************************)
(* newFromSamples                                                          *)
(***************************************************************************)
\* a model.Sample: its label set and its value
LatencySample(l, tag, v) ==
    [Metric |-> [resource |-> l[1], subresource |-> l[2], verb |-> l[3],
                 scope |-> l[4], quantile |-> tag],
     Value |-> v]

CountSample(l, v) ==
    [Metric |-> [resource |-> l[1], subresource |-> l[2], verb |-> l[3],
                 scope |-> l[4]],
     Value |-> v]

\* strconv.ParseFloat on a quantile label; the quantile in hundredths
ParseFloat(tag) ==
    CASE tag \in {"0.5", "0.50"} -> [err |-> FALSE, val |-> 50]
      [] tag \in {"0.9", "0.90"} -> [err |-> FALSE, val |-> 90]
      [] tag = "0.99" -> [err |-> FALSE, val |-> 99]
      [] OTHER -> [err |-> TRUE, val |-> 0]

\* fmt.Sprintf("%.2f", q)
FormatQuantile(q) ==
    CASE q = 50 -> "0.50"
      [] q = 90 -> "0.90"
      [] q = 99 -> "0.99"

extractCommon(sample) ==
    <<sample.Metric.resource, sample.Metric.subresource, sample.Metric.verb,
      sample.Metric.scope>>

\* body of the loop over latencySamples
LatencyStep(m, sample) ==
    LET l == extractCommon(sample)
        quantile == ParseFloat(sample.Metric.quantile)
    IN  IF quantile.err THEN [m |-> m, err |-> TRUE]
        ELSE [m |-> SetLatency(m, l[1], l[2], l[3], l[4], quantile.val,
                               ToDuration(sample.Value)),
              err |-> FALSE]

\* body of the loop over countSamples
CountStep(m, sample) ==
    LET l == extractCommon(sample)
    IN  SetCount(m, l[1], l[2], l[3], l[4], Round(sample.Value))

\* body of the loop over countSlowSamples
SlowCountStep(m, sample) ==
    LET l == extractCommon(sample)
    IN  SetSlowCount(m, l[1], l[2], l[3], l[4], Round(sample.Value))

RECURSIVE LatencyLoop(_, _)
LatencyLoop(m, samples) ==
    IF samples = <<>> THEN [m |-> m, err |-> FALSE]
    ELSE LET r == LatencyStep(m, Head(samples))
         IN  IF r.err THEN r ELSE LatencyLoop(r.m, Tail(samples))

RECURSIVE CountLoop(_, _)
CountLoop(m, samples) ==
    IF samples = <<>> THEN m
    ELSE CountLoop(CountStep(m, Head(samples)), Tail(samples))

RECURSIVE SlowCountLoop(_, _)
SlowCountLoop(m, samples) ==
    IF samples = <<>> THEN m
    ELSE SlowCountLoop(SlowCountStep(m, Head(samples)), Tail(samples))

\* newFromSamples: the mapping, or the parse error
newFromSamples(latency, count, countSlow) ==
    LET r == LatencyLoop(<<>>, latency)
    IN  IF r.err THEN [m |-> None, err |-> TRUE]
        ELSE [m |-> SlowCountLoop(CountLoop(r.m, count), countSlow),
              err |-> FALSE]

(***************************************************************************)
(* apiCallMetric.Validate                                                  *)
(***************************************************************************)
\* faulty variant: the cluster and namespace objectives are swapped
getSLOThresholdSwapped(a) ==
    IF a.Verb # "LIST" THEN resourceThreshold
    ELSE IF a.Scope = "cluster" THEN namespaceThreshold
    ELSE clusterThreshold

getSLOThreshold(a) ==
    IF a.Verb # "LIST" THEN resourceThreshold
    ELSE IF a.Scope = "cluster" THEN clusterThreshold
    ELSE namespaceThreshold

\* TRUE when Validate returns an error
Validate(a, allowed) ==
    LET threshold == getSLOThreshold(a)
    IN  IF VerifyThreshold(a.Latency, threshold)
        THEN ~(allowed > 0 /\ a.SlowCount <= allowed)
        ELSE FALSE

(***************************************************************************)
(* config.Params and the util.Get*OrDefault readers                        *)
(***************************************************************************)
\* a value of config.Params, or the absence of the option
Absent == [type |-> "absent", b |-> FALSE, i |-> 0, s |-> ""]
BoolV(x) == [type |-> "bool", b |-> x, i |-> 0, s |-> ""]
IntV(x) == [type |-> "int", b |-> FALSE, i |-> x, s |-> ""]
StrV(x) == [type |-> "string", b |-> FALSE, i |-> 0, s |-> x]

GetBoolOrDefault(params, key, default) ==
    CASE params[key].type = "absent" -> [val |-> default, err |-> FALSE]
      [] params[key].type = "bool" -> [val |-> params[key].b, err |-> FALSE]
      [] OTHER -> [val |-> FALSE, err |-> TRUE]

GetIntOrDefault(params, key, default) ==
    CASE params[key].type = "absent" -> [val |-> default, err |-> FALSE]
      [] params[key].type = "int" -> [val |-> params[key].i, err |-> FALSE]
      [] OTHER -> [val |-> 0, err |-> TRUE]

GetStringOrDefault(params, key, default) ==
    CASE params[key].type = "absent" -> [val |-> default, err |-> FALSE]
      [] params[key].type = "string" -> [val |-> params[key].s, err |-> FALSE]
      [] OTHER -> [val |-> "", err |-> TRUE]

(***************************************************************************)
(* validateAPICalls and the tail of Gather                                 *)
(***************************************************************************)
\* the error Validate returns for a failing record
ViolationOf(a) == [got |-> a, expected |-> getSLOThreshold(a)]

RECURSIVE ValidateLoop(_, _)
ValidateLoop(all, allowed) ==
    IF all = <<>> THEN <<>>
    ELSE (IF Validate(Head(all), allowed) THEN <<ViolationOf(Head(all))>> ELSE <<>>)
            \o ValidateLoop(Tail(all), allowed)

RECURSIVE ValidateUntilFirst(_, _)
ValidateUntilFirst(all, allowed) ==
    IF all = <<>> THEN <<>>
    ELSE IF Validate(Head(all), allowed) THEN <<ViolationOf(Head(all))>>
    ELSE ValidateUntilFirst(Tail(all), allowed)

\* faulty variant: the loop stops at the first failing record
validateAPICallsStopAtFirst(allowed, m, order) ==
    ValidateUntilFirst(sorted(m, order), allowed)

\* validateAPICalls: badMetrics, one entry per failing record, in sorted order
validateAPICalls(allowed, m, order) == ValidateLoop(sorted(m, order), allowed)

apiResponsivenessPrometheusMeasurementName == "APIResponsivenessPrometheus"

NoSummary == [name |-> "", content |-> [Version |-> "", DataItems |-> <<>>]]
NoResult == [summary |-> NoSummary, err |-> "none", badMetrics |-> <<>>]

\* faulty variant: an empty report is handed back next to the error
FailedWithEmptyReport(kind) ==
    [summary |-> [name |-> "APIResponsivenessPrometheus",
                  content |-> [Version |-> "v1", DataItems |-> <<>>]],
     err |-> kind, badMetrics |-> <<>>]

\* what Gather returns for an error that ends the pass: nil, err
Failed(kind) == [summary |-> NoSummary, err |-> kind, badMetrics |-> <<>>]

\* Gather after gatherAPICalls returned apiCalls; order1 and order2 are the
\* map iteration orders of the two calls of sorted()
GatherTail(params, apiCalls, order1, order2) ==
    LET content == ToPerfData(apiCalls, order1)
        summaryName == GetStringOrDefault(params, "summaryName",
                                          apiResponsivenessPrometheusMeasurementName)
        allowed == GetIntOrDefault(params, "allowedSlowCalls", 0)
    IN  IF summaryName.err \/ allowed.err THEN Failed("config")
        ELSE LET badMetrics == validateAPICalls(allowed.val, apiCalls, order2)
             IN  [summary |-> [name |-> summaryName.val, content |-> content],
                  err |-> IF Len(badMetrics) > 0 THEN "violation" ELSE "none",
                  badMetrics |-> badMetrics]

(***************************************************************************)
(* Spec: any sequence of calls on one apiCallMetrics.                      *)
(***************************************************************************)
Resources == {"pods", "pods|"}
Subresources == {"", "|"}
Verbs == {"GET"}
Scopes == {"cluster"}
Quantiles == {50, 90, 99}
Latencies == {ToDuration(10), ToDuration(50), ToDuration(500)}
Counts == {0, 3}

Labels == Resources \X Subresources \X Verbs \X Scopes

IdleAgg ==
    /\ metrics = <<>>
    /\ lastCall = [op |-> None]
    /\ returned = None
    /\ updates = {}
    /\ ncalls = 0

IdleSamples ==
    /\ latencySamples = <<>>
    /\ countSamples = <<>>
    /\ countSlowSamples = <<>>
    /\ given = [latency |-> <<>>, count |-> <<>>, countSlow |-> <<>>]

IdleGather ==
    /\ config = [useSimpleLatencyQuery |-> Absent, allowedSlowCalls |-> Absent,
                 summaryName |-> Absent]
    /\ store = [latency |-> <<>>, count |-> <<>>, slow |-> <<>>, quantileLabels |-> <<>>]
    /\ pc = None
    /\ now = 0
    /\ measurementEnd = 0
    /\ queries = <<>>
    /\ result = NoResult

IdleValidate ==
    /\ ap = None
    /\ allowedSlowCalls = 0
    /\ verdict = None

Init == IdleAgg /\ IdleSamples /\ IdleGather /\ IdleValidate

CallSetLatency ==
    /\ ncalls < MaxCalls
    /\ \E l \in Labels, q \in Quantiles, d \in Latencies :
          /\ metrics' = SetLatency(metrics, l[1], l[2], l[3], l[4], q, d)
          /\ lastCall' = [op |-> "SetLatency", labels |-> l, value |-> d]
          /\ updates' = updates \cup {l}
    /\ returned' = None
    /\ ncalls' = ncalls + 1
    /\ UNCHANGED <<sampleVars, gatherVars, validateVars>>

CallSetCount ==
    /\ ncalls < MaxCalls
    /\ \E l \in Labels, c \in Counts :
          /\ metrics' = SetCount(metrics, l[1], l[2], l[3], l[4], c)
          /\ lastCall' = [op |-> "SetCount", labels |-> l, value |-> c]
          /\ updates' = IF c = 0 THEN updates ELSE updates \cup {l}
    /\ returned' = None
    /\ ncalls' = ncalls + 1
    /\ UNCHANGED <<sampleVars, gatherVars, validateVars>>

CallSetSlowCount ==
    /\ ncalls < MaxCalls
    /\ \E l \in Labels, c \in Counts :
          /\ metrics' = SetSlowCount(metrics, l[1], l[2], l[3], l[4], c)
          /\ lastCall' = [op |-> "SetSlowCount", labels |-> l, value |-> c]
          /\ updates' = IF c = 0 THEN updates ELSE updates \cup {l}
    /\ returned' = None
    /\ ncalls' = ncalls + 1
    /\ UNCHANGED <<sampleVars, gatherVars, validateVars>>

CallToPerfData ==
    /\ lastCall.op # "ToPerfData"
    /\ \E order \in Orders(DOMAIN metrics) :
          returned' = ToPerfData(metrics, order)
    /\ lastCall' = [op |-> "ToPerfData"]
    /\ UNCHANGED <<metrics, updates, ncalls, sampleVars, gatherVars, validateVars>>

Next == CallSetLatency \/ CallSetCount \/ CallSetSlowCount \/ CallToPerfData

Spec == Init /\ [][Next]_vars

(***************************************************************************)
(* Claims about the aggregator under Spec.                                 *)
(***************************************************************************)
KeyOf(l) == buildKey(l[1], l[2], l[3], l[4])
LabelsOf(a) == <<a.Resource, a.Subresource, a.Verb, a.Scope>>

\* C2: a SetCount or SetSlowCount call whose value is 0 changes nothing in the
\* mapping: not the Count or SlowCount of the record for that key (so a nonzero
\* value is never reset to 0), no other field and no other record.
C2_ZeroValueChangesNothing ==
    [][(/\ ncalls' = ncalls + 1
        /\ lastCall'.op \in {"SetCount", "SetSlowCount"}
        /\ lastCall'.value = 0) => metrics' = metrics]_vars

\* C2 witness: a zero-valued call has just been made for a key whose record
\* already holds a nonzero value in the field the call is about.
C2_Witness ==
    /\ lastCall.op \in {"SetCount", "SetSlowCount"}
    /\ lastCall.value = 0
    /\ KeyOf(lastCall.labels) \in DOMAIN metrics
    /\ LET a == metrics[KeyOf(lastCall.labels)]
       IN  IF lastCall.op = "SetCount" THEN a.Count # 0 ELSE a.SlowCount # 0

\* C7: the report of ToPerfData holds exactly one item per record of the
\* mapping, and the items are in non-increasing order of Perc99.
C7_ReportSortedByPerc99 ==
    lastCall.op = "ToPerfData" =>
        LET items == returned.DataItems
        IN  /\ Len(items) = Cardinality(DOMAIN metrics)
            /\ \A k \in DOMAIN metrics :
                  Cardinality({i \in 1..Len(items) : items[i] = DataItem(metrics[k])}) = 1
            /\ \A i \in 1..(Len(items) - 1) :
                  items[i].Data.Perc99 >= items[i + 1].Data.Perc99

\* C7 witness: three records with Perc99 of 10ms, 500ms and 50ms were
\* rendered, and the report lists 500ms, 50ms, 10ms.
C7_Witness ==
    /\ lastCall.op = "ToPerfData"
    /\ Cardinality(DOMAIN metrics) = 3
    /\ {metrics[k].Latency.Perc99 : k \in DOMAIN metrics}
          = {ToDuration(10), ToDuration(500), ToDuration(50)}
    /\ [i \in 1..3 |-> returned.DataItems[i].Data.Perc99] = <<500, 50, 10>>

\* C10: the mapping holds exactly one record per (resource, subresource,
\* verb, scope): two updates reach the same record only if they agree on all
\* four labels, and each record carries the labels of every update applied to
\* it, also for labels that contain '|'.
C10_OneRecordPerLabels ==
    /\ \A u1, u2 \in updates : KeyOf(u1) = KeyOf(u2) => u1 = u2
    /\ \A u \in updates :
          KeyOf(u) \in DOMAIN metrics /\ LabelsOf(metrics[KeyOf(u)]) = u
    /\ Cardinality(DOMAIN metrics) = Cardinality(updates)

(***************************************************************************)
(* SpecSamples: newFromSamples folds three sample lists into one mapping.  *)
(* The samples arrive one at a time, each list in its own order, the three *)
(* lists interleaved in any way; the order of the code (latency, then      *)
(* count, then slow count) is one of the interleavings.                    *)
(***************************************************************************)
K == <<"pods", "", "GET", "namespace">>
K2 == <<"nodes", "", "LIST", "cluster">>

LatencySampleSet == {LatencySample(K, tag, 500) : tag \in {"0.50", "0.99"}}
CountSampleSet == {CountSample(l, v) : l \in {K, K2}, v \in {0, 5}}
SlowCountSampleSet == {CountSample(K, v) : v \in {0, 50, 150}}

InitSamples ==
    /\ IdleAgg /\ IdleGather /\ IdleValidate
    /\ latencySamples \in SeqUpTo(LatencySampleSet, MaxSamples)
    /\ countSamples \in SeqUpTo(CountSampleSet, MaxSamples)
    /\ countSlowSamples \in SeqUpTo(SlowCountSampleSet, MaxSamples)
    /\ given = [latency |-> latencySamples, count |-> countSamples,
                countSlow |-> countSlowSamples]

ArriveLatency ==
    /\ latencySamples # <<>>
    /\ returned # "error"
    /\ LET r == LatencyStep(metrics, Head(latencySamples))
       IN  /\ metrics' = r.m
           /\ returned' = IF r.err THEN "error" ELSE returned
    /\ latencySamples' = Tail(latencySamples)
    /\ UNCHANGED <<lastCall, updates, ncalls, countSamples, countSlowSamples,
                   given, gatherVars, validateVars>>

ArriveCount ==
    /\ countSamples # <<>>
    /\ returned # "error"
    /\ metrics' = CountStep(metrics, Head(countSamples))
    /\ countSamples' = Tail(countSamples)
    /\ UNCHANGED <<lastCall, returned, updates, ncalls, latencySamples,
                   countSlowSamples, given, gatherVars, validateVars>>

ArriveSlowCount ==
    /\ countSlowSamples # <<>>
    /\ returned # "error"
    /\ metrics' = SlowCountStep(metrics, Head(countSlowSamples))
    /\ countSlowSamples' = Tail(countSlowSamples)
    /\ UNCHANGED <<lastCall, returned, updates, ncalls, latencySamples,
                   countSamples, given, gatherVars, validateVars>>

NextSamples == ArriveLatency \/ ArriveCount \/ ArriveSlowCount

SpecSamples == InitSamples /\ [][NextSamples]_vars

\* every sample has been folded in
SamplesDone ==
    /\ returned # "error"
    /\ latencySamples = <<>> /\ countSamples = <<>> /\ countSlowSamples = <<>>

\* the labels l occur in the sample list
Mentions(samples, l) == \E i \in 1..Len(samples) : extractCommon(samples[i]) = l

\* the integer nearest to v tenths (v >= 0), halves upwards
Nearest(v) == CHOOSE n \in 0..(v \div 10 + 1) : 10 * n - 5 <= v /\ v < 10 * n + 5

\* the rounded value of the last sample for l that does not round to 0, else 0
RECURSIVE LastNonzero(_, _)
LastNonzero(samples, l) ==
    IF samples = <<>> THEN 0
    ELSE LET x == samples[Len(samples)]
         IN  IF extractCommon(x) = l /\ Nearest(x.Value) # 0 THEN Nearest(x.Value)
             ELSE LastNonzero(SubSeq(samples, 1, Len(samples) - 1), l)

\* the records of the mapping that carry the labels l
RecordsFor(l) == {k \in DOMAIN metrics : LabelsOf(metrics[k]) = l}

\* some sample makes newFromSamples reference the record for l
Referenced(l) ==
    \/ Mentions(given.latency, l)
    \/ LastNonzero(given.count, l) # 0
    \/ LastNonzero(given.countSlow, l) # 0

\* every reordering of the sequence s
Reorderings(s) ==
    {[i \in 1..Len(s) |-> s[p[i]]] : p \in Orders(1..Len(s))}

\* C1 (as amended): the samples for K yield at most one record for K, exactly
\* one when a latency sample or a count or slow-count sample that rounds to
\* nonzero names K; the mapping is the same for every interleaving of the
\* three sample lists that keeps the order inside each list, and inside a list
\* the last sample that rounds to nonzero sets Count and SlowCount.
C1_MergeAcrossSets ==
    SamplesDone =>
        /\ metrics = newFromSamples(given.latency, given.count, given.countSlow).m
        /\ Cardinality(RecordsFor(K)) = IF Referenced(K) THEN 1 ELSE 0
        /\ \A k \in RecordsFor(K) :
              /\ metrics[k].Count = LastNonzero(given.count, K)
              /\ metrics[k].SlowCount = LastNonzero(given.countSlow, K)

\* C1 witness: samples of all three lists for K were merged into one record,
\* two different nonzero slow counts among them.
C1_Witness ==
    /\ SamplesDone
    /\ Len(given.latency) = 2 /\ given.latency[1] # given.latency[2]
    /\ Mentions(given.count, K)
    /\ {given.countSlow[i].Value : i \in 1..Len(given.countSlow)} = {50, 150}
    /\ Cardinality(RecordsFor(K)) = 1
    /\ \A k \in RecordsFor(K) :
          metrics[k].Latency.Perc50 # 0 /\ metrics[k].Latency.Perc99 # 0

\* C1 (as stated), its order part: the mapping built from the samples for K
\* is the same for every arrival order, reorderings inside one sample list
\* included.
C1_AnyArrivalOrder ==
    SamplesDone =>
        \A pl \in Reorderings(given.latency), pn \in Reorderings(given.count),
           ps \in Reorderings(given.countSlow) :
              newFromSamples(pl, pn, ps).m = metrics

\* the labels l occur in a count sample and in no other sample
OnlyInCount(l) ==
    /\ Mentions(given.count, l)
    /\ ~Mentions(given.latency, l)
    /\ ~Mentions(given.countSlow, l)

\* C9 (as amended): a key that appears only in count samples yields a record
\* exactly when one of those samples rounds to nonzero; the record then has
\* an unset latency distribution, no slow count, and the rounded count.
C9_CountOnlyKey ==
    SamplesDone =>
        \A l \in {K, K2} : OnlyInCount(l) =>
            /\ Cardinality(RecordsFor(l)) = IF LastNonzero(given.count, l) # 0 THEN 1 ELSE 0
            /\ \A k \in RecordsFor(l) :
                  /\ metrics[k].Latency = ZeroLatency
                  /\ metrics[k].SlowCount = 0
                  /\ metrics[k].Count = LastNonzero(given.count, l)

\* C9 witness: K2 was named by a count sample alone and has its record, next
\* to a record for K that latency samples created.
C9_Witness ==
    /\ SamplesDone
    /\ OnlyInCount(K2)
    /\ Mentions(given.latency, K)
    /\ \E k \in RecordsFor(K2) : metrics[k].Count = 1 /\ metrics[k].Latency = ZeroLatency
    /\ RecordsFor(K) # {}

\* C9 (as stated): a key that appears only in a count sample yields a record
\* with an unset latency distribution, whatever value the sample carries.
C9_CountOnlyKeyAnyValue ==
    SamplesDone =>
        \A l \in {K, K2} : OnlyInCount(l) =>
            /\ RecordsFor(l) # {}
            /\ \A k \in RecordsFor(l) : metrics[k].Latency = ZeroLatency

(***************************************************************************)
(* SpecValidate: Validate applied to one record under one tolerance.       *)
(***************************************************************************)
ValidatedVerbs == {"GET", "POST", "LIST"}
ValidatedScopes == {"resource", "namespace", "cluster"}
ValidatedLatencies ==
    {[Perc50 |-> p50, Perc90 |-> p50, Perc99 |-> p99] :
        p50 \in {0, ToDuration(500)},
        p99 \in {0, ToDuration(500), resourceThreshold, 2 * Second,
                 namespaceThreshold, 6 * Second, clusterThreshold, 40 * Second}}
ValidatedSlowCounts == {0, 5, 10, 15}
Tolerances == {-1, 0, 10}

InitValidate ==
    /\ IdleAgg /\ IdleSamples /\ IdleGather
    /\ ap \in [Resource : {"pods"}, Subresource : {""}, Verb : ValidatedVerbs,
               Scope : ValidatedScopes, Latency : ValidatedLatencies,
               Count : {3}, SlowCount : ValidatedSlowCounts]
    /\ allowedSlowCalls \in Tolerances
    /\ verdict = None

CallValidate ==
    /\ verdict = None
    /\ verdict' = IF Validate(ap, allowedSlowCalls) THEN "error" ELSE "nil"
    /\ UNCHANGED <<ap, allowedSlowCalls, aggVars, sampleVars, gatherVars>>

NextValidate == CallValidate

SpecValidate == InitValidate /\ [][NextValidate]_vars

\* the objective the SLO gives a call, in microseconds
Objective(verb, scope) ==
    IF verb # "LIST" THEN 1000 * 1000
    ELSE IF scope = "cluster" THEN 30 * 1000 * 1000
    ELSE 5 * 1000 * 1000

\* C3: Validate reports a failure exactly when Perc99 exceeds the objective
\* chosen from (verb, scope) and it is not the case that the tolerance is
\* positive and SlowCount is within it.
C3_ValidateVerdict ==
    verdict # None =>
        (verdict = "error" <=>
            /\ ap.Latency.Perc99 > Objective(ap.Verb, ap.Scope)
            /\ ~(allowedSlowCalls > 0 /\ ap.SlowCount <= allowedSlowCalls))

\* C3 witness: under tolerance 10 a cluster LIST with Perc99 = 40s and
\* SlowCount = 5 has been validated and passed.
C3_Witness ==
    /\ verdict = "nil"
    /\ allowedSlowCalls = 10
    /\ ap.Verb = "LIST" /\ ap.Scope = "cluster"
    /\ ap.Latency.Perc99 = 40 * Second
    /\ ap.SlowCount = 5

(***************************************************************************)
(* SpecGather: one Gather pass against a query executor.  The backend      *)
(* holds one state (store) at the evaluation instant; a query either fails *)
(* or returns the series of the store that its text selects.               *)
(***************************************************************************)
G1 == <<"pods", "", "GET", "resource">>
G2 == <<"nodes", "", "LIST", "cluster">>
GatherKeys == <<G1, G2>>

quantiles == <<50, 90, 99>>
slowFilters == <<"filterGetAndMutating", "filterNamespaceList", "filterClusterList">>

\* the guard of the slow-count queries
SlowQueriesWanted(allowed) == allowed # 0

RECURSIVE Concat(_)
Concat(ss) == IF ss = <<>> THEN <<>> ELSE Head(ss) \o Concat(Tail(ss))

\* the value of a key's latency series at a quantile label; v is the 0.99 value
AtQuantile(tag, v) ==
    CASE tag = "0.50" -> v \div 4
      [] tag = "0.90" -> v \div 2
      [] OTHER -> v

\* latencyQuery: the recorded series carry the backend's own quantile labels
LatencyResponse(st) ==
    Concat([i \in 1..Len(GatherKeys) |->
        IF i \notin DOMAIN st.latency THEN <<>>
        ELSE [j \in 1..Len(st.quantileLabels) |->
                LatencySample(GatherKeys[i], st.quantileLabels[j],
                              AtQuantile(st.quantileLabels[j], st.latency[i]))]])

\* simpleLatencyQuery for quantile q: grouped by the four labels, no quantile label
SimpleLatencyResponse(st, q) ==
    Concat([i \in 1..Len(GatherKeys) |->
        IF i \notin DOMAIN st.latency THEN <<>>
        ELSE <<CountSample(GatherKeys[i], AtQuantile(FormatQuantile(q), st.latency[i]))>>])

\* countQuery
CountResponse(st) ==
    Concat([i \in 1..Len(GatherKeys) |->
        IF i \notin DOMAIN st.count THEN <<>>
        ELSE <<CountSample(GatherKeys[i], st.count[i])>>])

\* the label matchers of filterGetAndMutating, filterNamespaceList, filterClusterList
Matches(filter, l) ==
    CASE filter = "filterGetAndMutating" ->
            l[3] \notin {"WATCH", "WATCHLIST", "PROXY", "CONNECT"}
      [] filter = "filterNamespaceList" -> l[4] # "cluster" /\ l[3] = "LIST"
      [] filter = "filterClusterList" -> l[4] = "cluster" /\ l[3] = "LIST"

\* countSlowQuery under a filter: the LIST filters drop more buckets than the first
CountSlowResponse(st, filter) ==
    Concat([i \in 1..Len(GatherKeys) |->
        IF i \notin DOMAIN st.slow \/ ~Matches(filter, GatherKeys[i]) THEN <<>>
        ELSE <<CountSample(GatherKeys[i],
                           IF filter = "filterGetAndMutating" THEN st.slow[i]
                           ELSE st.slow[i] \div 3)>>])

\* sample.Metric["quantile"] = fmt.Sprintf("%.2f", q) on every returned sample
Tagged(samples, q) ==
    [i \in 1..Len(samples) |->
        LatencySample(extractCommon(samples[i]), FormatQuantile(q), samples[i].Value)]

UseSimpleValues == {Absent, BoolV(TRUE), BoolV(FALSE), StrV("yes")}
AllowedSlowCallsValues == {Absent, IntV(10), IntV(-1), StrV("ten")}
SummaryNameValues == {Absent, StrV("custom"), IntV(7)}

\* the series over the keys in `keys`, each with a value of `values`
Series(values) == UNION {[present -> values] : present \in SUBSET (1..Len(GatherKeys))}

\* latency in milliseconds at the 0.99 quantile, counts in tenths
Stores ==
    [latency : Series({500, 40000}),
     count : Series({30}),
     slow : Series({50, 150}),
     quantileLabels : {<<"0.50", "0.90", "0.99">>, <<"0.99">>, <<"">>}]

InitGather ==
    /\ IdleAgg /\ IdleSamples /\ IdleValidate
    /\ config \in [useSimpleLatencyQuery : UseSimpleValues,
                   allowedSlowCalls : AllowedSlowCallsValues,
                   summaryName : SummaryNameValues]
    /\ store \in Stores
    /\ pc = "start"
    /\ now = 1
    /\ measurementEnd = 0
    /\ queries = <<>>
    /\ result = NoResult

\* executor.Query(query, measurementEnd) as the executor receives it, with its answer
Query(kind, arg, ok, samples) ==
    [kind |-> kind, arg |-> arg, at |-> measurementEnd, ok |-> ok,
     samples |-> IF ok THEN samples ELSE <<>>]

\* gatherAPICalls returns newFromSamples(...), and Gather runs to its end
Finish(latency, count, countSlow) ==
    LET apiCalls == newFromSamples(latency, count, countSlow)
    IN  /\ pc' = "done"
        /\ IF apiCalls.err
           THEN /\ metrics' = metrics
                /\ result' = Failed("parse")
           ELSE /\ metrics' = apiCalls.m
                /\ \E order1, order2 \in Orders(DOMAIN apiCalls.m) :
                      result' = GatherTail(config, apiCalls.m, order1, order2)

\* Gather up to the first query: the evaluation instant and the query strategy
GatherStart ==
    /\ pc = "start"
    /\ measurementEnd' = now
    /\ LET useSimple == GetBoolOrDefault(config, "useSimpleLatencyQuery", FALSE)
       IN  IF useSimple.err
           THEN pc' = "done" /\ result' = Failed("config")
           ELSE /\ pc' = IF useSimple.val THEN "simpleLatencyQuery" ELSE "latencyQuery"
                /\ result' = result
    /\ UNCHANGED <<aggVars, sampleVars, validateVars, config, store, now, queries>>

\* the one latency query of the windowed mode
QueryLatency ==
    /\ pc = "latencyQuery"
    /\ \E ok \in BOOLEAN :
          LET samples == LatencyResponse(store)
          IN  /\ queries' = Append(queries, Query("latencyQuery", "0.99", ok, samples))
              /\ IF ok
                 THEN latencySamples' = samples /\ pc' = "countQuery" /\ result' = result
                 ELSE /\ latencySamples' = latencySamples
                      /\ pc' = "done"
                      /\ result' = Failed("query")
    /\ now' = now + 1
    /\ UNCHANGED <<aggVars, validateVars, countSamples, countSlowSamples, given,
                   config, store, measurementEnd>>

\* one turn of the loop over quantiles in the simplified mode
QuerySimpleLatency ==
    /\ pc = "simpleLatencyQuery"
    /\ \E ok \in BOOLEAN :
          LET q == quantiles[Len(queries) + 1]
              samples == SimpleLatencyResponse(store, q)
          IN  /\ queries' = Append(queries,
                    Query("simpleLatencyQuery", FormatQuantile(q), ok, samples))
              /\ IF ok
                 THEN /\ latencySamples' = latencySamples \o Tagged(samples, q)
                      /\ pc' = IF Len(queries) + 1 = Len(quantiles) THEN "countQuery"
                               ELSE "simpleLatencyQuery"
                      /\ result' = result
                 ELSE /\ latencySamples' = latencySamples
                      /\ pc' = "done"
                      /\ result' = Failed("query")
    /\ now' = now + 1
    /\ UNCHANGED <<aggVars, validateVars, countSamples, countSlowSamples, given,
                   config, store, measurementEnd>>

\* the count query, the read of allowedSlowCalls and, with no slow-count
\* query to make, the rest of the pass
QueryCount ==
    /\ pc = "countQuery"
    /\ \E ok \in BOOLEAN :
          LET samples == CountResponse(store)
              allowed == GetIntOrDefault(config, "allowedSlowCalls", 0)
          IN  /\ queries' = Append(queries, Query("countQuery", "", ok, samples))
              /\ IF ~ok
                 THEN /\ countSamples' = countSamples
                      /\ pc' = "done"
                      /\ result' = Failed("query")
                      /\ metrics' = metrics
                 ELSE /\ countSamples' = samples
                      /\ IF allowed.err
                         THEN pc' = "done" /\ result' = Failed("config") /\ metrics' = metrics
                         ELSE IF SlowQueriesWanted(allowed.val)
                         THEN pc' = "countSlowQuery" /\ result' = result /\ metrics' = metrics
                         ELSE Finish(latencySamples, samples, <<>>)
    /\ now' = now + 1
    /\ UNCHANGED <<lastCall, returned, updates, ncalls, validateVars, latencySamples,
                   countSlowSamples, given, config, store, measurementEnd>>

\* one turn of the loop over the slow-count filters and, after the last, the
\* rest of the pass
QueryCountSlow ==
    /\ pc = "countSlowQuery"
    /\ \E ok \in BOOLEAN :
          LET n == Cardinality({i \in 1..Len(queries) : queries[i].kind = "countSlowQuery"})
              filter == slowFilters[n + 1]
              samples == CountSlowResponse(store, filter)
          IN  /\ queries' = Append(queries, Query("countSlowQuery", filter, ok, samples))
              /\ IF ~ok
                 THEN /\ countSlowSamples' = countSlowSamples
                      /\ pc' = "done"
                      /\ result' = Failed("query")
                      /\ metrics' = metrics
                 ELSE /\ countSlowSamples' = countSlowSamples \o samples
                      /\ IF n + 1 = Len(slowFilters)
                         THEN Finish(latencySamples, countSamples, countSlowSamples \o samples)
                         ELSE pc' = "countSlowQuery" /\ result' = result /\ metrics' = metrics
    /\ now' = now + 1
    /\ UNCHANGED <<lastCall, returned, updates, ncalls, validateVars, latencySamples,
                   countSamples, given, config, store, measurementEnd>>

NextGather ==
    GatherStart \/ QueryLatency \/ QuerySimpleLatency \/ QueryCount \/ QueryCountSlow

SpecGather == InitGather /\ [][NextGather]_vars

(***************************************************************************)
(* Claims about the Gather pass under SpecGather.                          *)
(***************************************************************************)
AllQueriesOk == \A i \in 1..Len(queries) : queries[i].ok

\* the option is absent or has the type its reader accepts
WellTyped(key, type) == config[key].type \in {"absent", type}

\* the tolerance the configuration sets, 0 when it sets none
ConfiguredTolerance ==
    IF config.allowedSlowCalls.type = "int" THEN config.allowedSlowCalls.i ELSE 0

\* the queries received so far, as <<kind, argument>> pairs
Issued == [i \in 1..Len(queries) |-> <<queries[i].kind, queries[i].arg>>]

\* C4: when every query succeeds and every option and sample is well formed,
\* Gather returns the report with one item per aggregated record, and an
\* error exactly when some record fails validation; the error lists every
\* failing record.
C4_FullReportAndOneAggregateError ==
    (/\ pc = "done"
     /\ AllQueriesOk
     /\ WellTyped("useSimpleLatencyQuery", "bool")
     /\ WellTyped("allowedSlowCalls", "int")
     /\ WellTyped("summaryName", "string")
     /\ \A i \in 1..Len(latencySamples) :
           ~ParseFloat(latencySamples[i].Metric.quantile).err) =>
        LET failing == {k \in DOMAIN metrics : Validate(metrics[k], ConfiguredTolerance)}
            items == result.summary.content.DataItems
        IN  /\ metrics = newFromSamples(latencySamples, countSamples, countSlowSamples).m
            /\ result.summary # NoSummary
            /\ Len(items) = Cardinality(DOMAIN metrics)
            /\ \A k \in DOMAIN metrics : \E i \in 1..Len(items) : items[i] = DataItem(metrics[k])
            /\ result.err = IF failing = {} THEN "none" ELSE "violation"
            /\ Len(result.badMetrics) = Cardinality(failing)
            /\ {result.badMetrics[i].got : i \in 1..Len(result.badMetrics)}
                  = {metrics[k] : k \in failing}

\* C4 witness: a pass ended with two records, both failing validation, and
\* returned the report of both together with the violation error.
C4_Witness ==
    /\ pc = "done"
    /\ AllQueriesOk
    /\ result.err = "violation"
    /\ Len(result.badMetrics) = 2
    /\ Len(result.summary.content.DataItems) = 2

\* C5: once a query has failed it is the last query the executor receives,
\* nothing is aggregated, and Gather has returned the query error without a
\* report.
C5_QueryFailureAbortsPass ==
    (\E i \in 1..Len(queries) : ~queries[i].ok) =>
        /\ pc = "done"
        /\ \A i \in 1..Len(queries) : queries[i].ok <=> i < Len(queries)
        /\ result.err = "query"
        /\ result.summary = NoSummary
        /\ result.badMetrics = <<>>
        /\ metrics = <<>>

\* C5 witness: the last of seven queries, the third slow-count query, failed
\* after samples had been collected.
C5_Witness ==
    /\ pc = "done"
    /\ Len(queries) = 7
    /\ ~queries[7].ok
    /\ queries[7].kind = "countSlowQuery"
    /\ latencySamples # <<>> /\ countSamples # <<>> /\ countSlowSamples # <<>>

\* C6: a pass that ends in a configuration error has issued no query.
C6_ConfigErrorBeforeAnyQuery ==
    result.err = "config" => Len(queries) = 0

\* the queries of a pass with no failure, given when slow-count queries are due
ExpectedQueries(slowDue) ==
    (IF config.useSimpleLatencyQuery.type = "bool" /\ config.useSimpleLatencyQuery.b
     THEN <<<<"simpleLatencyQuery", "0.50">>, <<"simpleLatencyQuery", "0.90">>,
            <<"simpleLatencyQuery", "0.99">>>>
     ELSE <<<<"latencyQuery", "0.99">>>>)
    \o <<<<"countQuery", "">>>>
    \o (IF slowDue
        THEN <<<<"countSlowQuery", "filterGetAndMutating">>,
               <<"countSlowQuery", "filterNamespaceList">>,
               <<"countSlowQuery", "filterClusterList">>>>
        ELSE <<>>)

\* in the simplified mode every latency sample carries the quantile of its query
TaggedByQuery ==
    (config.useSimpleLatencyQuery.type = "bool" /\ config.useSimpleLatencyQuery.b) =>
        latencySamples =
            Concat([i \in 1..3 |->
                [j \in 1..Len(queries[i].samples) |->
                    [Metric |-> [resource |-> queries[i].samples[j].Metric.resource,
                                 subresource |-> queries[i].samples[j].Metric.subresource,
                                 verb |-> queries[i].samples[j].Metric.verb,
                                 scope |-> queries[i].samples[j].Metric.scope,
                                 quantile |-> queries[i].arg],
                     Value |-> queries[i].samples[j].Value]]])

\* a pass has ended with no query failure, its query strategy well typed
PassWithoutQueryFailure ==
    /\ pc = "done"
    /\ AllQueriesOk
    /\ WellTyped("useSimpleLatencyQuery", "bool")

\* The pass as the code runs it: the slow-count queries are made when
\* allowedSlowCalls is a nonzero integer, positive or negative.
QueryOrderAsCoded ==
    PassWithoutQueryFailure =>
        /\ Issued = ExpectedQueries(config.allowedSlowCalls.type = "int"
                                    /\ config.allowedSlowCalls.i # 0)
        /\ \A i \in 1..Len(queries) : queries[i].at = measurementEnd
        /\ TaggedByQuery

\* C8: in a pass where no query fails the executor receives, all at one
\* evaluation instant, the latency queries (one in windowed mode; three in
\* simplified mode for 0.50, 0.90, 0.99, each sample tagged with its query's
\* quantile), then one count query, then three slow-count queries when
\* allowedSlowCalls > 0 and none otherwise.
C8_QueryOrderPositiveTolerance ==
    PassWithoutQueryFailure =>
        /\ Issued = ExpectedQueries(config.allowedSlowCalls.type = "int"
                                    /\ config.allowedSlowCalls.i > 0)
        /\ \A i \in 1..Len(queries) : queries[i].at = measurementEnd
        /\ TaggedByQuery

====
